---- MODULE Spec2Model ----
(***************************************************************************)
(* The context-manager notebook (Tips/2016-03-23-With-Context-Manager):    *)
(*   cell 1   with open("utf8.txt", "r") as f: print(f.read())             *)
(*   cell 2   try: f = open(..); print(f.read())  finally: f.close()       *)
(*   cell 3   class Refs over the shared mapping _G                        *)
(*   cell 4   @contextmanager def ref() over the shared mapping _G         *)
(*                                                                         *)
(* Spec runs cell 3 and cell 4 side by side on one program text: every     *)
(* statement of the program is executed once with the class-based handles  *)
(* (implementation "Refs", cell 3's _G) and once with the generator-based  *)
(* handles (implementation "ref", cell 4's _G).  The program text is       *)
(* either the demonstration of the two cells (script = "demo") or any      *)
(* bounded program built from the same statements (script = "free").       *)
(* SpecFile runs cell 1 and cell 2 side by side in one environment.        *)
(***************************************************************************)
EXTENDS Integers, Sequences, FiniteSets

\* ------------------------------------------------------------- bounds
\* statements acc/dec executed by a free program
MaxSteps == 2
\* the amounts n passed to acc(n) / dec(n) are 1..MaxAmount
MaxAmount == 2
\* a free program starts from a counter in 0..MaxInit, or from the demo's 99
MaxInit == 0

\* --------------------------------------------------- program constants
\* _G = {"counter": 99, "user": "admin"}
DemoCounter == 99
\* for _ in range(3)
Rounds == 3
\* ref2.acc(2) / r2["counter"] += 2
DemoAcc == 2
\* def acc(self, n = 1) / def dec(self, n = 1)
DefaultN == 1

Handles == {"ref1", "ref2"}
Impls == {"Refs", "ref"}
Errors == {"ValueError", "KeyError"}
NoError == "None"
Amounts == 1..MaxAmount
InitCounters == (0..MaxInit) \cup {DemoCounter}

\* the empty namespace / heap: a function with no argument
Empty == [x \in {} |-> x]
\* namespace or heap f with name k (re)bound to v
Bind(f, k, v) == [x \in (DOMAIN f) \cup {k} |-> IF x = k THEN v ELSE f[x]]

\* references a name can hold: a Refs instance, or the mapping _G itself
ObjRef(name) == [ref |-> "Refs", id |-> name]
DictRef == [ref |-> "dict", id |-> "_G"]

VARIABLES
    script,     \* "demo": the program of cells 3 and 4; "free": any program
    ip,         \* index of the next statement of the demo program
    pc,         \* "run", "unwind" (an exception leaves the blocks), "done"
    stack,      \* the with blocks control is inside, outermost first
    phase,      \* per handle: "none", "constructed", "entered", "exited"
    _G,         \* per implementation: the shared mapping
    objs,       \* cell 3: the Refs instances (name, init), by handle
    gens,       \* cell 4: the generator frames of ref(), by handle
    asv,        \* per implementation: what the name after `as` is bound to
    exc,        \* per implementation: the exception in flight, or NoError
    out,        \* per implementation: the printed (name, counter) lines
    final,      \* per implementation: the mapping printed by print(_G)
    obs,        \* what an observer of the run has seen (history)
    env,        \* cells 1 and 2: the file system and the kernel's namespace
    cell1,      \* cell 1 (with open): position, namespace, files, result
    cell2       \* cell 2 (try/finally): position, namespace, files, result

refVars == <<script, ip, pc, stack, phase, _G, objs, gens, asv, exc, out, final, obs>>
fileVars == <<env, cell1, cell2>>
vars == <<refVars, fileVars>>

\* --------------------------------------------------------------- cell 3
\* a faulty __init__ that sets self.init = 0 instead of reading the counter
Refs__init__Zero(g, name) == [name |-> name, init |-> 0]

\* __init__: self.name = name; self._G = _G; self.init = self._G['counter']
Refs__init__(g, name) == [name |-> name, init |-> g["counter"]]

\* a faulty __enter__ that returns self._G instead of self
Refs__enter__ReturnsDict(g, self) == [G |-> g, ret |-> DictRef]

\* __enter__: return self
Refs__enter__(g, self) == [G |-> g, ret |-> ObjRef(self.name)]

\* a faulty __exit__ that forgets the restore
Refs__exit__NoRestore(g, self, args) == [G |-> g, ret |-> FALSE]

\* a faulty __exit__ that returns True
Refs__exit__Suppress(g, self, args) ==
    [G |-> [g EXCEPT !["counter"] = self.init], ret |-> TRUE]

\* __exit__: self._G["counter"] = self.init; return False
Refs__exit__(g, self, args) ==
    [G |-> [g EXCEPT !["counter"] = self.init], ret |-> FALSE]

\* a faulty acc that stores n under a new key
Refs_acc_NewKey(g, self, n) == Bind(g, "count", n)

\* acc: self._G["counter"] += n
Refs_acc(g, self, n) == [g EXCEPT !["counter"] = @ + n]

\* a faulty dec that adds
Refs_dec_Adds(g, self, n) == [g EXCEPT !["counter"] = @ + n]

\* dec: self._G["counter"] -= n
Refs_dec(g, self, n) == [g EXCEPT !["counter"] = @ - n]

\* __str__: "COUNTER #{name}: {counter}".format(**self._G, name=self.name)
Refs__str__(g, self) == <<self.name, g["counter"]>>

\* --------------------------------------------------------------- cell 4
\* calling ref() makes a generator that has not started running
ref_new == [at |-> "start", locals |-> Empty]

\* first next(): counter = _G["counter"]; yield _G
ref_start(g, frame) ==
    [G |-> g,
     frame |-> [at |-> "yield", locals |-> Bind(frame.locals, "counter", g["counter"])],
     yielded |-> DictRef]

\* second next(): _G["counter"] = counter, then the generator returns
ref_resume(g, frame) ==
    [G |-> [g EXCEPT !["counter"] = frame.locals["counter"]],
     frame |-> [frame EXCEPT !.at = "done"],
     raised |-> "StopIteration"]

\* throw(e) at the yield: no try encloses the yield, so e leaves the
\* generator at once and the statement after the yield is not executed
ref_throw(g, frame, e) ==
    [G |-> g, frame |-> [frame EXCEPT !.at = "done"], raised |-> e]

\* @contextmanager's __enter__: return next(self.gen)
cm__enter__(g, frame) ==
    LET r == ref_start(g, frame)
    IN  [G |-> r.G, frame |-> r.frame, ret |-> r.yielded]

\* @contextmanager's __exit__(type, value, tb): without an exception
\* next(self.gen) must end the generator; with one, self.gen.throw(value),
\* and the same exception coming back out means "not suppressed"
cm__exit__(g, frame, e) ==
    LET r == IF e = NoError THEN ref_resume(g, frame) ELSE ref_throw(g, frame, e)
    IN  [G |-> r.G, frame |-> r.frame,
         ret |-> IF e = NoError THEN FALSE ELSE r.raised # e]

\* r["counter"] += n / r["counter"] -= n through the yielded mapping
dict_iadd(g, n) == [g EXCEPT !["counter"] = @ + n]
dict_isub(g, n) == [g EXCEPT !["counter"] = @ - n]

\* "COUNTER #ref1: {}".format(_G["counter"])
ref_format(g, name) == <<name, g["counter"]>>

\* ------------------------------------------------- the demo program
Stmt(op, h, n) == [op |-> op, h |-> h, n |-> n]

\* for _ in range(3): ref1.dec(); print(ref1); ref2.acc(2); print(ref2)
RECURSIVE Loop(_)
Loop(k) ==
    IF k = 0 THEN <<>>
    ELSE <<Stmt("dec", "ref1", DefaultN), Stmt("print", "ref1", 0),
           Stmt("acc", "ref2", DemoAcc), Stmt("print", "ref2", 0)>> \o Loop(k - 1)

\* with Refs("ref1") as ref1, Refs("ref2") as ref2: <loop>
Cell == <<Stmt("with", "ref1", 0), Stmt("with", "ref2", 0)>>
        \o Loop(Rounds)
        \o <<Stmt("end", "ref2", 0), Stmt("end", "ref1", 0)>>

\* the statement is the next one of the program text
Permits(s) ==
    \/ script = "free"
    \/ script = "demo" /\ ip <= Len(Cell) /\ Cell[ip] = s

\* ------------------------------------------------------------ history
Obs0 ==
    [c0 |-> 0, steps |-> 0, net |-> 0, raised |-> NoError,
     inline |-> Empty, stepsAt |-> Empty, depthAt |-> Empty,
     atNew |-> Empty, atEnter |-> Empty, afterEnter |-> Empty,
     atExit |-> Empty, afterExit |-> Empty, excAtExit |-> Empty,
     exits |-> [h \in Handles |-> 0], exitOrder |-> <<>>,
     bodySteps |-> [h \in Handles |-> 0], bodyAtExit |-> Empty]

\* ---------------------------------------------------------------- Init
\* cells 3 and 4 before their first statement
RefInit ==
    /\ script \in {"demo", "free"}
    /\ \E c \in InitCounters :
         /\ script = "demo" => c = DemoCounter
         /\ _G = [w \in Impls |-> [counter |-> c, user |-> "admin"]]
         /\ obs = [Obs0 EXCEPT !.c0 = c]
    /\ ip = 1
    /\ pc = "run"
    /\ stack = <<>>
    /\ phase = [h \in Handles |-> "none"]
    /\ objs = Empty
    /\ gens = Empty
    /\ asv = [w \in Impls |-> Empty]
    /\ exc = [w \in Impls |-> NoError]
    /\ out = [w \in Impls |-> <<>>]
    /\ final = Empty

\* h = Refs(name) / h = ref() as a statement of its own
Construct(h) ==
    /\ pc = "run"
    /\ script = "free"
    /\ phase[h] = "none"
    /\ phase' = [phase EXCEPT ![h] = "constructed"]
    /\ objs' = Bind(objs, h, Refs__init__(_G["Refs"], h))
    /\ gens' = Bind(gens, h, ref_new)
    /\ obs' = [obs EXCEPT !.inline = Bind(@, h, FALSE),
                          !.atNew = Bind(@, h, _G)]
    /\ UNCHANGED <<script, ip, pc, stack, _G, asv, exc, out, final, fileVars>>

\* with Refs(h) as h: / with ref() as h:   (the manager is made here), or
\* with h:                                  (the manager was made before)
With(h) ==
    /\ pc = "run"
    /\ Permits(Stmt("with", h, 0))
    /\ phase[h] \in {"none", "constructed"}
    /\ LET made == phase[h] = "constructed"
           self == IF made THEN objs[h] ELSE Refs__init__(_G["Refs"], h)
           frame == IF made THEN gens[h] ELSE ref_new
           rc == Refs__enter__(_G["Refs"], self)
           rg == cm__enter__(_G["ref"], frame)
           g1 == [w \in Impls |-> IF w = "Refs" THEN rc.G ELSE rg.G]
       IN  /\ objs' = Bind(objs, h, self)
           /\ gens' = Bind(gens, h, rg.frame)
           /\ _G' = g1
           /\ asv' = [w \in Impls |->
                        Bind(asv[w], h, IF w = "Refs" THEN rc.ret ELSE rg.ret)]
           /\ obs' = [obs EXCEPT
                        !.inline = IF made THEN @ ELSE Bind(@, h, TRUE),
                        !.atNew = IF made THEN @ ELSE Bind(@, h, _G),
                        !.stepsAt = Bind(@, h, obs.steps),
                        !.depthAt = Bind(@, h, Len(stack)),
                        !.atEnter = Bind(@, h, _G),
                        !.afterEnter = Bind(@, h, g1)]
    /\ phase' = [phase EXCEPT ![h] = "entered"]
    /\ stack' = Append(stack, h)
    /\ ip' = IF script = "demo" THEN ip + 1 ELSE ip
    /\ UNCHANGED <<script, pc, exc, out, final, fileVars>>

\* h.acc(n) or h.dec(n)                          (cell 3)
\* r["counter"] += n or r["counter"] -= n        (cell 4)
Step(h, op, n) ==
    /\ pc = "run"
    /\ Permits(Stmt(op, h, n))
    /\ script = "free" => obs.steps < MaxSteps
    /\ h \in DOMAIN asv["Refs"]
    /\ h \in DOMAIN asv["ref"]
    /\ LET gc == IF op = "acc" THEN Refs_acc(_G["Refs"], objs[h], n)
                 ELSE Refs_dec(_G["Refs"], objs[h], n)
           gg == IF op = "acc" THEN dict_iadd(_G["ref"], n)
                 ELSE dict_isub(_G["ref"], n)
       IN  _G' = [w \in Impls |-> IF w = "Refs" THEN gc ELSE gg]
    /\ obs' = [obs EXCEPT
                 !.steps = @ + 1,
                 !.net = IF op = "acc" THEN @ + n ELSE @ - n,
                 !.bodySteps = [x \in Handles |->
                                  IF \E i \in 1..Len(stack) : stack[i] = x
                                  THEN @[x] + 1 ELSE @[x]]]
    /\ ip' = IF script = "demo" THEN ip + 1 ELSE ip
    /\ UNCHANGED <<script, pc, stack, phase, objs, gens, asv, exc, out, final, fileVars>>

\* print(h)                                             (cell 3)
\* print("COUNTER #h: {}".format(_G["counter"]))        (cell 4)
\* Only the demo program prints inside the blocks.
PrintLine(h) ==
    /\ pc = "run"
    /\ script = "demo"
    /\ Permits(Stmt("print", h, 0))
    /\ h \in DOMAIN asv["Refs"]
    /\ out' = [w \in Impls |->
                 Append(out[w], IF w = "Refs" THEN Refs__str__(_G["Refs"], objs[h])
                                ELSE ref_format(_G["ref"], h))]
    /\ ip' = ip + 1
    /\ UNCHANGED <<script, pc, stack, phase, _G, objs, gens, asv, exc, final, obs, fileVars>>

\* a statement of the innermost body raises e
Raise(e) ==
    /\ pc = "run"
    /\ script = "free"
    /\ stack # <<>>
    /\ exc' = [w \in Impls |-> e]
    /\ pc' = "unwind"
    /\ obs' = [obs EXCEPT !.raised = e]
    /\ UNCHANGED <<script, ip, stack, phase, _G, objs, gens, asv, out, final, fileVars>>

\* control leaves the innermost with block: its __exit__ is called with the
\* exception in flight (or None), and a true result suppresses the exception
ExitScope ==
    /\ stack # <<>>
    /\ pc \in {"run", "unwind"}
    /\ LET h == stack[Len(stack)]
           rc == Refs__exit__(_G["Refs"], objs[h], exc["Refs"])
           rg == cm__exit__(_G["ref"], gens[h], exc["ref"])
           g1 == [w \in Impls |-> IF w = "Refs" THEN rc.G ELSE rg.G]
           rest == SubSeq(stack, 1, Len(stack) - 1)
       IN  /\ pc = "run" => Permits(Stmt("end", h, 0))
           /\ _G' = g1
           /\ gens' = [gens EXCEPT ![h] = rg.frame]
           /\ exc' = [w \in Impls |->
                        IF (IF w = "Refs" THEN rc.ret ELSE rg.ret)
                        THEN NoError ELSE exc[w]]
           /\ stack' = rest
           /\ phase' = [phase EXCEPT ![h] = "exited"]
           /\ pc' = IF pc = "unwind" /\ rest = <<>> THEN "done" ELSE pc
           /\ obs' = [obs EXCEPT
                        !.atExit = Bind(@, h, _G),
                        !.afterExit = Bind(@, h, g1),
                        !.excAtExit = Bind(@, h, exc),
                        !.exits = [@ EXCEPT ![h] = @ + 1],
                        !.bodyAtExit = Bind(@, h, obs.bodySteps[h]),
                        !.exitOrder = Append(@, h)]
    /\ ip' = IF script = "demo" THEN ip + 1 ELSE ip
    /\ UNCHANGED <<script, objs, asv, out, final, fileVars>>

\* print(_G) after the outermost block, the last statement of the cell
Finish ==
    /\ pc = "run"
    /\ stack = <<>>
    /\ script = "demo" => ip > Len(Cell)
    /\ final' = _G
    /\ pc' = "done"
    /\ UNCHANGED <<script, ip, stack, phase, _G, objs, gens, asv, exc, out, obs, fileVars>>

\* ------------------------------------------------------ cells 1 and 2
\* what f.read() / print can raise, and the texts utf8.txt can hold
ReadErrors == {"UnicodeDecodeError"}
Contents == {"", "hello"}

\* the environment a cell runs in: whether utf8.txt can be opened, what
\* reading it raises, its text, and whether the kernel's namespace already
\* binds f (to the closed file an earlier cell left behind)
Envs ==
    [exists : BOOLEAN, readErr : {NoError} \cup ReadErrors,
     content : Contents, prior : BOOLEAN]

\* a cell before its first statement
Cell0(e) ==
    [pc |-> "open",
     ns |-> IF e.prior THEN Bind(Empty, "f", "old") ELSE Empty,
     heap |-> IF e.prior THEN Bind(Empty, "old", "closed") ELSE Empty,
     mgr |-> "none", trace |-> <<>>, shown |-> <<>>, err |-> NoError]

\* open("utf8.txt", "r"): a new open file object, or FileNotFoundError
open_(e, c) ==
    IF e.exists
    THEN [c |-> [c EXCEPT !.heap = Bind(@, "new", "open"),
                          !.trace = Append(@, <<"open", "new">>)],
          ret |-> "new", err |-> NoError]
    ELSE [c |-> c, ret |-> "none", err |-> "FileNotFoundError"]

\* f.read(): the text, or the error reading raises
file_read(e, c, id) ==
    [c |-> [c EXCEPT !.trace = Append(@, <<"read", id>>)],
     ret |-> e.content, err |-> e.readErr]

\* f.close(): closes the file; closing a closed file does nothing more
file_close(c, id) ==
    [c EXCEPT !.heap = [@ EXCEPT ![id] = "closed"],
              !.trace = Append(@, <<"close", id>>)]

\* file.__enter__: return self
file__enter__(c, id) == [c |-> c, ret |-> id]

\* file.__exit__(*args): self.close(); returns None, which suppresses nothing
file__exit__(c, id, e) == [c |-> file_close(c, id), ret |-> FALSE]

\* print(f.read())
PrintRead(e, c) ==
    LET r == file_read(e, c, c.ns["f"])
    IN  IF r.err # NoError THEN [r.c EXCEPT !.err = r.err]
        ELSE [r.c EXCEPT !.shown = Append(@, r.ret)]

FileInit ==
    /\ env \in Envs
    /\ cell1 = Cell0(env)
    /\ cell2 = Cell0(env)

\* cell 1, step 1: with open("utf8.txt", "r") ...
WithOpen ==
    /\ cell1.pc = "open"
    /\ LET r == open_(env, cell1)
       IN  cell1' = IF r.err # NoError
                    THEN [r.c EXCEPT !.err = r.err, !.pc = "done"]
                    ELSE [r.c EXCEPT !.mgr = r.ret, !.pc = "enter"]
    /\ UNCHANGED <<env, cell2, refVars>>

\* cell 1, step 3: ... as f
WithEnter ==
    /\ cell1.pc = "enter"
    /\ LET r == file__enter__(cell1, cell1.mgr)
       IN  cell1' = [r.c EXCEPT !.ns = Bind(@, "f", r.ret), !.pc = "body"]
    /\ UNCHANGED <<env, cell2, refVars>>

\* cell 1, step 4: print(f.read())
WithBody ==
    /\ cell1.pc = "body"
    /\ cell1' = [PrintRead(env, cell1) EXCEPT !.pc = "exit"]
    /\ UNCHANGED <<env, cell2, refVars>>

\* cell 1, step 5: __exit__ with the exception of the body, if any
WithExit ==
    /\ cell1.pc = "exit"
    /\ LET r == file__exit__(cell1, cell1.mgr, cell1.err)
       IN  cell1' = [r.c EXCEPT !.err = IF r.ret THEN NoError ELSE @,
                                !.pc = "done"]
    /\ UNCHANGED <<env, cell2, refVars>>

\* cell 2: try: f = open("utf8.txt", "r")
TryOpen ==
    /\ cell2.pc = "open"
    /\ LET r == open_(env, cell2)
       IN  cell2' = IF r.err # NoError
                    THEN [r.c EXCEPT !.err = r.err, !.pc = "finally"]
                    ELSE [r.c EXCEPT !.ns = Bind(@, "f", r.ret), !.pc = "body"]
    /\ UNCHANGED <<env, cell1, refVars>>

\* cell 2: print(f.read())
TryBody ==
    /\ cell2.pc = "body"
    /\ cell2' = [PrintRead(env, cell2) EXCEPT !.pc = "finally"]
    /\ UNCHANGED <<env, cell1, refVars>>

\* cell 2: finally: f.close(); looking up an unbound f raises NameError,
\* which replaces the exception the try block was leaving with
TryFinally ==
    /\ cell2.pc = "finally"
    /\ cell2' = IF "f" \in DOMAIN cell2.ns
                THEN [file_close(cell2, cell2.ns["f"]) EXCEPT !.pc = "done"]
                ELSE [cell2 EXCEPT !.err = "NameError", !.pc = "done"]
    /\ UNCHANGED <<env, cell1, refVars>>

\* cells 1 and 2 before their first statement, in a present, readable file
FileIdle ==
    /\ FileInit
    /\ env = [exists |-> TRUE, readErr |-> NoError, content |-> "hello",
              prior |-> FALSE]

\* cells 3 and 4 before the demo
RefIdle == RefInit /\ script = "demo"

Init == RefInit /\ FileIdle

InitFile == RefIdle /\ FileInit

NextFile ==
    \/ WithOpen
    \/ WithEnter
    \/ WithBody
    \/ WithExit
    \/ TryOpen
    \/ TryBody
    \/ TryFinally

Next ==
    \/ \E h \in Handles : Construct(h)
    \/ \E h \in Handles : With(h)
    \/ \E h \in Handles, op \in {"acc", "dec"}, n \in Amounts : Step(h, op, n)
    \/ \E h \in Handles : PrintLine(h)
    \/ \E e \in Errors : Raise(e)
    \/ ExitScope
    \/ Finish

Spec == Init /\ [][Next]_vars

SpecFile == InitFile /\ [][NextFile]_vars

\* ------------------------------------------------------------- claims
Entered(h) == phase[h] \in {"entered", "exited"}
Exited(h) == phase[h] = "exited"
Counter(g) == g["counter"]

\* C1: a Refs handle made and entered by one with statement leaves the
\* counter, right after its scope has exited, at the value it had before
\* the with statement, whether the body completed or raised.
C1_RefsRestores ==
    \A h \in Handles :
        (Exited(h) /\ obs.inline[h]) =>
            Counter(obs.afterExit[h]["Refs"]) = Counter(obs.atNew[h]["Refs"])

\* C1 witness: a body that changed the counter and then raised, undone by
\* the exit of its scope.
C1_Witness ==
    \E h \in Handles :
        /\ Exited(h) /\ obs.inline[h]
        /\ obs.excAtExit[h]["Refs"] # NoError
        /\ obs.bodySteps[h] > 0
        /\ Counter(obs.atExit[h]["Refs"]) # Counter(obs.atNew[h]["Refs"])
        /\ Counter(obs.afterExit[h]["Refs"]) = Counter(obs.atNew[h]["Refs"])

\* C2: a ref() handle made and entered by one with statement leaves the
\* counter, right after its scope has exited, at the value it had before
\* the with statement, whether the body completed or raised.
C2_GenRestores ==
    \A h \in Handles :
        (Exited(h) /\ obs.inline[h]) =>
            Counter(obs.afterExit[h]["ref"]) = Counter(obs.atNew[h]["ref"])

\* C3: Refs.__exit__ runs exactly once per block, before control leaves
\* it; an exception of the body is still in flight after the exit, with
\* the counter already restored, and reaches the enclosing code; without
\* an exception none reaches the enclosing code.
C3_ExitOnceNoSuppress ==
    /\ \A h \in Handles :
          /\ obs.exits[h] = IF Exited(h) THEN 1 ELSE 0
          /\ Exited(h) =>
                /\ Counter(obs.afterExit[h]["Refs"]) = objs[h].init
                /\ obs.excAtExit[h]["Refs"] # NoError =>
                      /\ obs.excAtExit[h]["Refs"] = obs.raised
                      /\ exc["Refs"] = obs.raised
    /\ pc = "done" =>
          /\ \A h \in Handles : phase[h] # "entered"
          /\ exc["Refs"] = obs.raised

\* C3 witness: the program has ended with the body's exception after two
\* nested blocks were left.
C3_Witness ==
    /\ pc = "done"
    /\ obs.raised \in Errors
    /\ exc["Refs"] = obs.raised
    /\ Len(obs.exitOrder) = 2
    /\ \A h \in Handles : obs.exits[h] = 1

\* C4: every handle records the counter's value at the moment its scope is
\* entered, and a release (of a body that completed) sets the counter to
\* the value it had at entry.
C4_RecordedAtEntry ==
    \A h \in Handles :
        /\ phase[h] = "entered" =>
              /\ objs[h].init = Counter(obs.atEnter[h]["Refs"])
              /\ gens[h].locals["counter"] = Counter(obs.atEnter[h]["ref"])
        /\ (Exited(h) /\ obs.raised = NoError) =>
              \A w \in Impls :
                  Counter(obs.afterExit[h][w]) = Counter(obs.atEnter[h][w])

\* C5: once both cells have ended, they have performed the same steps on
\* the file objects, have closed an opened file exactly once, and have
\* ended with the same error (or none).
C5_SameEffect ==
    (cell1.pc = "done" /\ cell2.pc = "done") =>
        /\ cell1.trace = cell2.trace
        /\ cell1.err = cell2.err
        /\ cell1.shown = cell2.shown
        /\ \A c \in {cell1, cell2} :
              "new" \in DOMAIN c.heap =>
                  /\ c.heap["new"] = "closed"
                  /\ Cardinality({i \in 1..Len(c.trace) :
                                     c.trace[i] = <<"close", "new">>}) = 1

\* C6: on a program whose handles are all made by their with statements,
\* the class-based and the generator-based handles show the same counter
\* values, bind and raise alike, and leave the same shared mapping.
C6_Equivalent ==
    (\A h \in DOMAIN obs.inline : obs.inline[h]) =>
        /\ _G["Refs"] = _G["ref"]
        /\ out["Refs"] = out["ref"]
        /\ exc["Refs"] = exc["ref"]
        /\ final # Empty => final["Refs"] = final["ref"]

\* with Refs(a) as a, Refs(b) as b: both made by the statement, b entered
\* inside a, nothing executed between the two
Parallel(a, b) ==
    /\ a # b
    /\ Entered(a) /\ Entered(b)
    /\ obs.inline[a] /\ obs.inline[b]
    /\ obs.depthAt[a] = 0 /\ obs.depthAt[b] = 1
    /\ obs.stepsAt[a] = obs.stepsAt[b]

\* C7: in with Refs(a) as a, Refs(b) as b: the scopes are entered in the
\* written order and exited in the reverse order, both handles record the
\* same counter, and after both exits the shared mapping is what it was
\* before the block, whatever acc and dec calls the body made; the
\* demonstration, which prints right after the block, prints that mapping.
C7_ParallelBlock ==
    \A a, b \in Handles :
        Parallel(a, b) =>
            /\ objs[a].init = objs[b].init
            /\ phase[b] = "entered" => stack = <<a, b>>
            /\ Exited(a) => obs.exitOrder = <<b, a>>
            /\ (Exited(b) /\ ~Exited(a)) => obs.exitOrder = <<b>> /\ stack = <<a>>
            /\ Exited(a) => obs.afterExit[a]["Refs"] = obs.atNew[a]["Refs"]
            /\ (script = "demo" /\ pc = "done") =>
                  final["Refs"] = obs.atNew[a]["Refs"]

\* C7 witness: the demonstration has ended and printed the mapping it
\* started from.
C7_Witness ==
    /\ script = "demo"
    /\ pc = "done"
    /\ Parallel("ref1", "ref2")
    /\ obs.steps = 2 * Rounds
    /\ obs.exitOrder = <<"ref2", "ref1">>
    /\ final["Refs"] = [counter |-> DemoCounter, user |-> "admin"]

\* the lines the demonstration prints inside the block
DemoOut ==
    << <<"ref1", 98>>, <<"ref2", 100>>, <<"ref1", 99>>,
       <<"ref2", 101>>, <<"ref1", 100>>, <<"ref2", 102>> >>

\* C8: while the scopes are open and none has exited, the counter read
\* through every handle is the initial value plus all acc amounts minus all
\* dec amounts; the demonstration prints 98, 100, 99, 101, 100, 102.
C8_SharedCounter ==
    /\ (stack # <<>> /\ \A h \in Handles : ~Exited(h)) =>
          \A h \in DOMAIN objs :
              Refs__str__(_G["Refs"], objs[h]) = <<h, obs.c0 + obs.net>>
    /\ script = "demo" =>
          /\ Len(out["Refs"]) <= Len(DemoOut)
          /\ out["Refs"] = SubSeq(DemoOut, 1, Len(out["Refs"]))

\* C8 witness: the demonstration has printed its six lines inside the
\* block.
C8_Witness ==
    /\ script = "demo"
    /\ stack = <<"ref1", "ref2">>
    /\ out["Refs"] = DemoOut
    /\ Counter(_G["Refs"]) = DemoCounter + Rounds * (DemoAcc - DefaultN)

\* C9: a handle's manager exists before it is entered; entering binds the
\* name after `as` to the handle itself (Refs) or to the shared mapping
\* (ref) and leaves the mapping unchanged; no statement of a scope's body
\* runs before its entry or after its exit.
C9_WithOrder ==
    \A h \in Handles :
        /\ ~Entered(h) =>
              /\ obs.bodySteps[h] = 0
              /\ \A w \in Impls : h \notin DOMAIN asv[w]
        /\ Entered(h) =>
              /\ h \in DOMAIN objs /\ h \in DOMAIN gens
              /\ asv["Refs"][h] = ObjRef(h)
              /\ asv["ref"][h] = DictRef
              /\ obs.afterEnter[h] = obs.atEnter[h]
        /\ phase[h] = "entered" =>
              /\ gens[h].at = "yield"
              /\ obs.exits[h] = 0
        /\ Exited(h) =>
              /\ obs.bodySteps[h] = obs.bodyAtExit[h]
              /\ gens[h].at = "done"

\* C9 witness: a scope has exited after a statement of its body, and
\* another statement ran outside it.
C9_Witness ==
    \E h \in Handles :
        /\ Exited(h)
        /\ obs.bodySteps[h] > 0
        /\ obs.steps > obs.bodySteps[h]

\* C10: in every state the shared mapping of either cell has exactly the
\* keys 'counter' and 'user', and 'user' is 'admin'.
C10_Frame ==
    \A w \in Impls :
        /\ DOMAIN _G[w] = {"counter", "user"}
        /\ _G[w]["user"] = "admin"

\* C10 witness: every operation has acted: two handles were made, entered,
\* used and released, one of them by an exception, and the counter moved.
C10_Witness ==
    /\ pc = "done"
    /\ obs.raised \in Errors
    /\ \A h \in Handles : Exited(h)
    /\ obs.steps > 0
    /\ Counter(_G["ref"]) # obs.c0

====
